---- MODULE Spec2Model ----
(***************************************************************************)
(* Model of the EPUB -> PDF converter: the Tk application (src/app.py),    *)
(* its background ConversionWorker thread and the conversion pipeline      *)
(* EPUBConverter.convert (src/converter.py).                               *)
(*                                                                         *)
(* Two execution contexts interleave: the Tk main thread, which runs one   *)
(* event handler at a time (_add_files_to_queue, the remove button,        *)
(* _clear_completed, the after(0) callbacks running _update_item, and      *)
(* _on_close), and the worker thread running ConversionWorker.run.  The    *)
(* worker's statements that touch shared state (the running flag, the task *)
(* queue, the Tk event queue) are separate steps; _on_close is split at    *)
(* the statements the worker can observe between.                          *)
(***************************************************************************)
EXTENDS Integers, Sequences, FiniteSets, TLC

(* ---------------------------------------------------------------- bounds *)
\* Number of QueueItems ever created (uuid4 ids are modelled as 1, 2, ...).
MaxJobs == 2
\* Longest file list handed to one _add_files_to_queue call.
MaxBatch == 2
\* Longest spine of a book returned by epub.read_epub.
MaxSpine == 3
\* The most items of book.get_items() followed through _extract_images.
MaxItems == 2

(* ------------------------------------------------------------- constants *)
\* The stop token _on_close puts on the task queue.
None == 0

PENDING == "pending"
CONVERTING == "converting"
COMPLETED == "completed"
FAILED == "failed"
ConversionStatus == {PENDING, CONVERTING, COMPLETED, FAILED}

Ids == 1..MaxJobs

\* Texts str(e) of the exceptions the collaborators (ebooklib, BeautifulSoup,
\* weasyprint) raise.
Errors == {"bad epub"}
\* Text of the exception Tk raises when after() is called on a destroyed app.
TclError == "application has been destroyed"

(* ---------------------------------------------------------------- values *)
\* A progress fraction num/den, kept exact.
Frac(n, d) == [num |-> n, den |-> d]
FracLeq(a, b) == a.num * b.den <= b.num * a.den
FracEq(a, b) == a.num * b.den = b.num * a.den
\* The literals 0.0, 0.1, 0.2, 0.7, 0.85, 1.0 of the source, in hundredths.
Lit(h) == Frac(h, 100)

\* A status message: fixed text, plus str(e) for "Error: ..." and the two
\* numbers of "Processing chapter {n} of {of}...".
Msg(t) == [text |-> t, err |-> "", n |-> 0, of |-> 0]
ErrorMsg(e) == [text |-> "Error: ", err |-> e, n |-> 0, of |-> 0]
ChapterMsg(k, total) == [text |-> "Processing chapter", err |-> "", n |-> k, of |-> total]

\* QueueItem as created: status PENDING, progress 0.0, message "Waiting...".
QueueItem == [status |-> PENDING, progress |-> Lit(0), message |-> Msg("Waiting...")]

\* QueueItemWidget.update_status, the part kept in the widget: the remove button
\* is disabled exactly while the status shown is CONVERTING.
ButtonState(status) == IF status = CONVERTING THEN "disabled" ELSE "normal"
QueueItemWidget(status) == [remove_btn |-> ButtonState(status)]

\* Only a document whose markup has a body with contents counts.
DocumentsWithBody == {"document"}

\* The spine entries whose item is an ITEM_DOCUMENT: its markup has a body
\* with contents, an empty body, or parses to a tree with no body.
Documents == {"document", "empty", "bodiless"}

\* Item kinds of a spine entry: an ITEM_DOCUMENT, another item type, or an id
\* for which book.get_item_with_id returns None.
Kinds == {"document", "empty", "bodiless", "other", "missing"}
RECURSIVE SeqsUpTo(_, _)
SeqsUpTo(S, n) ==
  IF n = 0 THEN {<<>>}
  ELSE LET shorter == SeqsUpTo(S, n - 1)
       IN shorter \cup {Append(s, x) : s \in {t \in shorter : Len(t) = n - 1}, x \in S}
\* The books epub.read_epub can return, as far as convert reads them: book.spine.
Books == SeqsUpTo(Kinds, MaxSpine)

Max(a, b) == IF a >= b THEN a ELSE b
Range(s) == {s[i] : i \in 1..Len(s)}
\* Python's [x for x in s if Test(x)]
RECURSIVE SelectKind(_, _)
SelectKind(s, kinds) ==
  IF s = <<>> THEN <<>>
  ELSE IF Head(s) \in kinds THEN <<Head(s)>> \o SelectKind(Tail(s), kinds)
       ELSE SelectKind(Tail(s), kinds)

(* ------------------------------------------------ paths and image data *)
\* A path is the sequence of its segments, the parts between "/"; a segment
\* is the sequence of its characters, where a percent escape ("%61"), a
\* directory name ("images") and a file extension (".png") each count as one.
Dot == <<".">>
DotDot == <<".", ".">>

\* urllib.parse.unquote, character by character.
UnquoteChar(c) == CASE c = "%61" -> "a" [] c = "%20" -> " " [] OTHER -> c
unquote(p) == [i \in 1..Len(p) |-> [j \in 1..Len(p[i]) |-> UnquoteChar(p[i][j])]]

\* os.path.basename, os.path.dirname, os.path.join (of relative paths)
basename(p) == IF p = <<>> THEN <<>> ELSE <<p[Len(p)]>>
dirname(p) == IF p = <<>> THEN <<>> ELSE SubSeq(p, 1, Len(p) - 1)
join(a, b) == a \o b

\* os.path.normpath: "." segments go, "x/.." pairs go, "" becomes ".".
RECURSIVE Collapse(_, _)
Collapse(done, rest) ==
  IF rest = <<>> THEN done
  ELSE IF Head(rest) = Dot THEN Collapse(done, Tail(rest))
  ELSE IF Head(rest) = DotDot /\ done # <<>> /\ done[Len(done)] # DotDot
    THEN Collapse(SubSeq(done, 1, Len(done) - 1), Tail(rest))
  ELSE Collapse(Append(done, Head(rest)), Tail(rest))
normpath(p) == IF Collapse(<<>>, p) = <<>> THEN <<Dot>> ELSE Collapse(<<>>, p)

\* str.lstrip('./'): every leading "." and "/" character is dropped.
RECURSIVE StripDots(_)
StripDots(seg) == IF seg # <<>> /\ Head(seg) = "." THEN StripDots(Tail(seg)) ELSE seg
RECURSIVE lstrip(_)
lstrip(p) ==
  IF p = <<>> THEN <<>>
  ELSE IF StripDots(Head(p)) = <<>> THEN lstrip(Tail(p))
  ELSE <<StripDots(Head(p))>> \o Tail(p)

\* Path(img_name).suffix.lower()
Lower(c) == CASE c = ".PNG" -> ".png" [] c = ".JPG" -> ".jpg" [] OTHER -> c
Extensions == {".jpg", ".jpeg", ".png", ".gif", ".svg", ".webp"}
Suffix(p) ==
  IF p # <<>> /\ Len(p[Len(p)]) > 1 /\ Lower(p[Len(p)][Len(p[Len(p)])]) \in Extensions
    THEN Lower(p[Len(p)][Len(p[Len(p)])])
    ELSE ""

\* mime_types.get(img_ext, 'image/png')
MimeType(ext) ==
  CASE ext \in {".jpg", ".jpeg"} -> "image/jpeg"
    [] ext = ".png" -> "image/png"
    [] ext = ".gif" -> "image/gif"
    [] ext = ".svg" -> "image/svg+xml"
    [] ext = ".webp" -> "image/webp"
    [] OTHER -> "image/png"

\* if img_ext in ['.jpg', '.jpeg', '.png', '.webp']
Transcoded == {".jpg", ".jpeg", ".png", ".webp"}

\* The bytes of an image file, as far as PIL reads them: whether Image.open
\* accepts them, the size and the mode of the picture; saved tells the bytes
\* of the EPUB from bytes written by img.save(format='JPEG', quality=85).
Bytes(saved, width, height, mode, opens) ==
  [saved |-> saved, width |-> width, height |-> height, mode |-> mode, opens |-> opens]
Source(width, height, mode, opens) == Bytes("epub", width, height, mode, opens)
NoBytes == Bytes("", 0, 0, "", FALSE)

\* Max width of an embedded image: "if img.width > 1200".
MaxWidth == 1200

\* An image wider than the limit is passed on as it is.
NewSizeUnlimited(width, height) == <<width, height>>

\* The size after "if img.width > 1200: ... img.resize(new_size)": ratio =
\* 1200 / img.width, new_size = (1200, int(img.height * ratio)).
NewSize(width, height) ==
  IF width > MaxWidth THEN <<MaxWidth, (height * MaxWidth) \div width>>
  ELSE <<width, height>>

\* The modes img.save(format='JPEG') writes; RGBA and P are flattened to RGB
\* on white before.
JpegModes == {"RGB", "L", "CMYK", "1"}
Flattened(mode) == IF mode \in {"RGBA", "P"} THEN "RGB" ELSE mode

\* Whether the try block of _extract_images raises: Image.open on bytes it
\* cannot read, resize to a height of 0, save of a mode JPEG cannot hold.
OptimizeFails(data) ==
  \/ ~data.opens
  \/ NewSize(data.width, data.height)[2] < 1
  \/ Flattened(data.mode) \notin JpegModes

\* img_data and mime_type after the try block for a file with suffix ext:
\* the JPEG written, or on any exception ("except Exception: pass") the
\* bytes and the type as they were.
Optimized(ext, data) ==
  IF ext \in Transcoded /\ ~OptimizeFails(data)
    THEN <<Bytes("JPEG q85", NewSize(data.width, data.height)[1],
                 NewSize(data.width, data.height)[2], Flattened(data.mode), TRUE),
           "image/jpeg">>
    ELSE <<data, MimeType(ext)>>

\* base64.b64encode(img_data).decode('utf-8')
b64encode(data) == [alphabet |-> "base64", of |-> data]

\* The value of an attribute: a relative reference or a data URI
\* f"data:{mime_type};base64,{b64_data}".
Ref(path) == [scheme |-> "", path |-> path, mime |-> "", data |-> b64encode(NoBytes)]
Uri(mime, b64) == [scheme |-> "data", path |-> <<>>, mime |-> mime, data |-> b64]

\* data_uri of one ITEM_IMAGE item.
DataUri(it) ==
  Uri(Optimized(Suffix(it.name), it.data)[2],
      b64encode(Optimized(Suffix(it.name), it.data)[1]))

\* The four keys one image is stored under.
Keys(name) == {name, basename(name), unquote(name), unquote(basename(name))}

\* images = {}
NoImages == [k \in {} |-> Uri("", b64encode(NoBytes))]

\* _extract_images: the items of book.get_items() in order; each ITEM_IMAGE
\* item is stored under its four keys, writing over what the keys held.
RECURSIVE ExtractFrom(_, _)
ExtractFrom(its, found) ==
  IF its = <<>> THEN found
  ELSE IF Head(its).type # "image" THEN ExtractFrom(Tail(its), found)
  ELSE ExtractFrom(Tail(its),
         [k \in DOMAIN found \cup Keys(Head(its).name) |->
            IF k \in Keys(Head(its).name) THEN DataUri(Head(its)) ELSE found[k]])
_extract_images(its) == ExtractFrom(its, NoImages)

\* The chapter-relative candidates tried before the bare ones.
SrcVariantsRelativeFirst(s, base) ==
  (IF base # <<>>
     THEN <<normpath(join(dirname(base), s)), normpath(join(dirname(base), unquote(s)))>>
     ELSE <<>>)
  \o <<s, unquote(s), basename(s), basename(unquote(s))>>

\* src_variants of _process_html_content.
SrcVariants(s, base) ==
  <<s, unquote(s), basename(s), basename(unquote(s))>>
  \o (IF base # <<>>
        THEN <<normpath(join(dirname(base), s)), normpath(join(dirname(base), unquote(s)))>>
        ELSE <<>>)

\* "for variant in src_variants": the first variant that, after lstrip('./'),
\* is a key of images gives the new src; with none the src stays.
RECURSIVE FirstFound(_, _, _)
FirstFound(variants, found, unchanged) ==
  IF variants = <<>> THEN unchanged
  ELSE IF lstrip(Head(variants)) \in DOMAIN found THEN found[lstrip(Head(variants))]
  ELSE FirstFound(Tail(variants), found, unchanged)

\* img['src'] after the loop body of _process_html_content for one img tag.
ProcessedSrc(s, found, base) ==
  IF s = <<>> THEN Ref(s) ELSE FirstFound(SrcVariants(s, base), found, Ref(s))

(* ----------------------------------------------------------------- state *)
VARIABLES
  \* --- EPUBtoPDFApp (main thread)
  queue_items,    \* dict id -> QueueItem (status, progress, message)
  item_widgets,   \* dict id -> QueueItemWidget (state of its remove button)
  task_queue,     \* queue.Queue: ids of queued items, None for the stop token
  unfinished,     \* queue.Queue.unfinished_tasks
  created,        \* number of QueueItems created so far
  mainPc,         \* "loop" | "close_stopped" | "close_put" | "destroyed"
  afterQueue,     \* Tk's queue of after(0, ...) callbacks not yet run
  \* --- ConversionWorker (worker thread)
  running,        \* ConversionWorker.running
  workerPc,       \* position of the worker in run / convert
  item,           \* the item run holds (its id), None outside a job
  err,            \* str(e) of the exception in flight
  book,           \* spine of the book read by convert
  idx,            \* loop index of convert's chapter loop
  html_parts,     \* convert's html_parts
  \* --- history
  lastCall,       \* the last result_callback call the worker made
  applied,        \* the last call _update_item ran for
  removedBeforeGet, \* the item held was removed before the worker dequeued it
  \* --- EPUBConverter._extract_images / _process_html_content
  book_items,     \* book.get_items()
  images,         \* the dict _extract_images returns: key -> data URI
  src,            \* the src attribute of the img tag processed
  base_path,      \* the base_path argument of _process_html_content
  img_src,        \* img['src'] once the tag has been processed
  imgPc           \* "idle" | "extract" | "process" | "done"

convVars == <<book, idx, html_parts>>
workerVars == <<running, workerPc, item, err, book, idx, html_parts, lastCall, removedBeforeGet>>
appVars == <<queue_items, item_widgets, task_queue, unfinished, created, mainPc,
             afterQueue, running, workerPc, item, err, book, idx, html_parts,
             lastCall, applied, removedBeforeGet>>
imgVars == <<book_items, images, src, base_path, img_src, imgPc>>
vars == <<queue_items, item_widgets, task_queue, unfinished, created, mainPc,
          afterQueue, running, workerPc, item, err, book, idx, html_parts,
          lastCall, applied, removedBeforeGet,
          book_items, images, src, base_path, img_src, imgPc>>

\* The arguments of one result_callback call; k numbers the calls made for
\* one item: 1, 2, ...
Notification(id, status, progress, message, k) ==
  [id |-> id, status |-> status, progress |-> progress, message |-> message, k |-> k]
\* Before the first call.
NoCall == Notification(None, PENDING, Lit(0), Msg("Waiting..."), 0)

\* The application and its worker after EPUBtoPDFApp.__init__.
AppInit ==
  /\ queue_items = [i \in {} |-> QueueItem]
  /\ item_widgets = [i \in {} |-> QueueItemWidget(PENDING)]
  /\ task_queue = <<>>
  /\ unfinished = 0
  /\ created = 0
  /\ mainPc = "loop"
  /\ afterQueue = <<>>
  /\ running = TRUE
  /\ workerPc = "check"
  /\ item = None
  /\ err = ""
  /\ book = <<>>
  /\ idx = 0
  /\ html_parts = <<>>
  /\ lastCall = NoCall
  /\ applied = NoCall
  /\ removedBeforeGet = FALSE

\* No call of _extract_images or _process_html_content is followed.
ImagesIdle ==
  /\ book_items = <<>>
  /\ images = NoImages
  /\ src = <<>>
  /\ base_path = <<>>
  /\ img_src = Ref(<<>>)
  /\ imgPc = "idle"

Init == AppInit /\ ImagesIdle

(* ------------------------------------------------------- the main thread *)
\* Alive(): the Tk application exists and its event loop runs handlers.
MainLoop == mainPc = "loop"

\* One iteration of the loop of _add_files_to_queue for a path that exists:
\* a fresh id, the item in queue_items, its widget, and task_queue.put(item).
\* st = <<queue_items, item_widgets, task_queue, unfinished, created>>
AddOne(st) ==
  LET id == st[5] + 1
  IN <<[i \in DOMAIN st[1] \cup {id} |-> IF i = id THEN QueueItem ELSE st[1][i]],
       [i \in DOMAIN st[2] \cup {id} |->
          IF i = id THEN QueueItemWidget(QueueItem.status) ELSE st[2][i]],
       Append(st[3], id),
       st[4] + 1,
       id>>

\* The whole loop: paths[k] says whether os.path.exists(epub_path) holds for
\* the k-th path; a path that does not exist is skipped.
RECURSIVE AddAll(_, _)
AddAll(paths, st) ==
  IF paths = <<>> THEN st
  ELSE AddAll(Tail(paths), IF Head(paths) THEN AddOne(st) ELSE st)

\* most: the number of QueueItems the model lets a run create.
_add_files_to_queue(paths, most) ==
  /\ MainLoop
  /\ created + Len(SelectSeq(paths, LAMBDA e : e)) <= most
  /\ LET st == AddAll(paths, <<queue_items, item_widgets, task_queue, unfinished, created>>)
     IN /\ queue_items' = st[1]
        /\ item_widgets' = st[2]
        /\ task_queue' = st[3]
        /\ unfinished' = st[4]
        /\ created' = st[5]
  /\ UNCHANGED <<mainPc, afterQueue, applied>>
  /\ UNCHANGED workerVars
  /\ UNCHANGED imgVars

\* The dicts after _remove_item(item_id): the widget is destroyed and both
\* entries deleted, whatever the item's status; the task queue is not touched.
WidgetsWithout(ids) == [i \in DOMAIN item_widgets \ ids |-> item_widgets[i]]
ItemsWithout(ids) == [i \in DOMAIN queue_items \ ids |-> queue_items[i]]

_remove_item(item_id) ==
  /\ item_widgets' = WidgetsWithout({item_id})
  /\ queue_items' = ItemsWithout({item_id})
  /\ UNCHANGED <<task_queue, unfinished, created, mainPc, afterQueue, applied>>
  /\ UNCHANGED workerVars
  /\ UNCHANGED imgVars

\* A click on the remove button of a widget: Tk runs the button's command,
\* QueueItemWidget._on_remove, only while the button is not disabled.
RemoveEnabled(id) == item_widgets[id].remove_btn = "normal"

ClickRemove ==
  /\ MainLoop
  /\ \E id \in DOMAIN item_widgets :
       /\ RemoveEnabled(id)
       /\ _remove_item(id)

\* remove(jobId) called on the application directly, not through the button.
RemoveCall ==
  /\ MainLoop
  /\ \E id \in 1..created : _remove_item(id)

\* _clear_completed: _remove_item for every item COMPLETED or FAILED.
ToRemove == {id \in DOMAIN queue_items : queue_items[id].status \in {COMPLETED, FAILED}}

_clear_completed ==
  /\ MainLoop
  /\ ToRemove # {}
  /\ item_widgets' = WidgetsWithout(ToRemove)
  /\ queue_items' = ItemsWithout(ToRemove)
  /\ UNCHANGED <<task_queue, unfinished, created, mainPc, afterQueue, applied>>
  /\ UNCHANGED workerVars
  /\ UNCHANGED imgVars

\* The callback queued last run first.
NewestCallback(q) == q[Len(q)]

\* The callback Tk runs next: after(0) callbacks run in the order of the calls.
NextCallback(q) == Head(q)
RestCallbacks(q) == Tail(q)

\* An _update_item without the two membership tests: it stores the status
\* under item_id whether or not the item is still there.
UpdateItemUnguarded ==
  /\ MainLoop
  /\ afterQueue # <<>>
  /\ LET n == NextCallback(afterQueue)
     IN /\ item_widgets' =
             [i \in DOMAIN item_widgets \cup {n.id} |->
                IF i = n.id THEN QueueItemWidget(n.status) ELSE item_widgets[i]]
        /\ queue_items' =
             [i \in DOMAIN queue_items \cup {n.id} |->
                IF i = n.id
                  THEN [status |-> n.status, progress |-> n.progress, message |-> n.message]
                  ELSE queue_items[i]]
        /\ applied' = n
  /\ afterQueue' = RestCallbacks(afterQueue)
  /\ UNCHANGED <<task_queue, unfinished, created, mainPc>>
  /\ UNCHANGED workerVars
  /\ UNCHANGED imgVars

\* _update_item(item_id, status, progress, message), run by the main thread
\* for the next after(0) callback.  The widget's item is the object
\* queue_items holds, so update_status and the three assignments write the
\* same fields.
_update_item ==
  /\ MainLoop
  /\ afterQueue # <<>>
  /\ LET n == NextCallback(afterQueue)
     IN /\ item_widgets' =
             [i \in DOMAIN item_widgets |->
                IF i = n.id THEN QueueItemWidget(n.status) ELSE item_widgets[i]]
        /\ queue_items' =
             [i \in DOMAIN queue_items |->
                IF i = n.id
                  THEN [status |-> n.status, progress |-> n.progress, message |-> n.message]
                  ELSE queue_items[i]]
        /\ applied' = n
  /\ afterQueue' = RestCallbacks(afterQueue)
  /\ UNCHANGED <<task_queue, unfinished, created, mainPc>>
  /\ UNCHANGED workerVars
  /\ UNCHANGED imgVars

\* _on_close, statement by statement: self.worker.stop()
OnCloseStop ==
  /\ MainLoop
  /\ running' = FALSE
  /\ mainPc' = "close_stopped"
  /\ UNCHANGED <<queue_items, item_widgets, task_queue, unfinished, created,
                 afterQueue, applied>>
  /\ UNCHANGED <<workerPc, item, err, book, idx, html_parts, lastCall, removedBeforeGet>>
  /\ UNCHANGED imgVars

\* self.task_queue.put(None)
OnClosePut ==
  /\ mainPc = "close_stopped"
  /\ task_queue' = Append(task_queue, None)
  /\ unfinished' = unfinished + 1
  /\ mainPc' = "close_put"
  /\ UNCHANGED <<queue_items, item_widgets, created, afterQueue, applied>>
  /\ UNCHANGED workerVars
  /\ UNCHANGED imgVars

\* self.destroy(): the application is torn down without joining the worker;
\* callbacks still waiting in Tk's queue never run.
OnCloseDestroy ==
  /\ mainPc = "close_put"
  /\ mainPc' = "destroyed"
  /\ UNCHANGED <<queue_items, item_widgets, task_queue, unfinished, created,
                 afterQueue, applied>>
  /\ UNCHANGED workerVars
  /\ UNCHANGED imgVars

(* ----------------------------------------------------- the worker thread *)
\* Whether self.after(...) can still be called: after destroy() it raises.
TkAlive == mainPc # "destroyed"

\* A result_callback that runs _update_item on the thread that calls it, with
\* no self.after.
UpdateOnCallingThread(id, status, progress, message) ==
  /\ lastCall' = Notification(id, status, progress, message,
                              IF lastCall.id = id THEN lastCall.k + 1 ELSE 1)
  /\ afterQueue' = afterQueue
  /\ item_widgets' =
       [i \in DOMAIN item_widgets |->
          IF i = id THEN QueueItemWidget(status) ELSE item_widgets[i]]
  /\ queue_items' =
       [i \in DOMAIN queue_items |->
          IF i = id THEN [status |-> status, progress |-> progress, message |-> message]
          ELSE queue_items[i]]

\* result_callback = EPUBtoPDFApp._on_conversion_update, called on the worker
\* thread: self.after(0, lambda: self._update_item(...)).  The call either
\* queues the callback or, once the application is destroyed, raises.
_on_conversion_update(id, status, progress, message) ==
  /\ lastCall' = Notification(id, status, progress, message,
                              IF lastCall.id = id THEN lastCall.k + 1 ELSE 1)
  /\ afterQueue' = IF TkAlive THEN Append(afterQueue, lastCall') ELSE afterQueue
  /\ UNCHANGED <<queue_items, item_widgets>>

\* while self.running:
WorkerCheck ==
  /\ workerPc = "check"
  /\ workerPc' = IF running THEN "get" ELSE "exited"
  /\ UNCHANGED <<queue_items, item_widgets, task_queue, unfinished, created, mainPc,
                 afterQueue, running, item, err, book, idx, html_parts,
                 lastCall, applied, removedBeforeGet>>
  /\ UNCHANGED imgVars

\* A last in, first out queue (queue.LifoQueue) in the place of queue.Queue.
QueueGetLifo(q) == <<q[Len(q)], SubSeq(q, 1, Len(q) - 1)>>

\* queue.Queue.get on a queue that is not empty: <<the entry, the queue left>>.
\* queue.Queue is first in, first out.
QueueGet(q) == <<Head(q), Tail(q)>>

\* item = self.task_queue.get(timeout=0.5): queue.Empty -> continue;
\* None -> break; otherwise the try block is entered with the item.
WorkerGet ==
  /\ workerPc = "get"
  /\ IF task_queue = <<>>
       THEN /\ workerPc' = "check"
            /\ UNCHANGED <<task_queue, item, removedBeforeGet>>
       ELSE /\ task_queue' = QueueGet(task_queue)[2]
            /\ IF QueueGet(task_queue)[1] = None
                 THEN /\ workerPc' = "exited"
                      /\ UNCHANGED <<item, removedBeforeGet>>
                 ELSE /\ workerPc' = "start"
                      /\ item' = QueueGet(task_queue)[1]
                      /\ removedBeforeGet' = (QueueGet(task_queue)[1] \notin DOMAIN queue_items)
  /\ UNCHANGED <<queue_items, item_widgets, unfinished, created, mainPc,
                 afterQueue, running, err, book, idx, html_parts, lastCall, applied>>
  /\ UNCHANGED imgVars

\* The status run's first call for an item passes.
StartStatus == CONVERTING
\* A first call that carries the message of convert's first report.
StartCallOpening == <<StartStatus, Lit(0), Msg("Opening EPUB file...")>>

\* The status, fraction and message of run's first call for an item.
StartCall == <<StartStatus, Lit(0), Msg("Starting conversion...")>>

\* self.result_callback(item.id, CONVERTING, 0.0, "Starting conversion..."),
\* then convert_epub_to_pdf(...) is entered; an exception of the callback goes
\* to run's except clause.
WorkerStart ==
  /\ workerPc = "start"
  /\ _on_conversion_update(item, StartCall[1], StartCall[2], StartCall[3])
  /\ IF TkAlive
       THEN workerPc' = "open" /\ err' = err
       ELSE workerPc' = "failed" /\ err' = TclError
  /\ UNCHANGED <<task_queue, unfinished, created, mainPc,
                 running, item, book, idx, html_parts, applied, removedBeforeGet>>
  /\ UNCHANGED imgVars

\* progress_callback of run, as _report_progress calls it.
_report_progress(progress, message) ==
  _on_conversion_update(item, CONVERTING, progress, message)

\* An exception inside convert's try block reaches its except clause.
Raise(e) ==
  /\ err' = e
  /\ workerPc' = "except"
  /\ UNCHANGED convVars

convFrame == <<task_queue, unfinished, created, mainPc,
               running, item, applied, removedBeforeGet,
               book_items, images, src, base_path, img_src, imgPc>>

\* _report_progress(0.0, "Opening EPUB file..."); book = epub.read_epub(epub_path)
\* books: the books the files on disk hold.
ConvertOpen(books) ==
  /\ workerPc = "open"
  /\ _report_progress(Lit(0), Msg("Opening EPUB file..."))
  /\ IF ~TkAlive THEN Raise(TclError)
     ELSE \/ \E e \in Errors : Raise(e)
          \/ \E b \in books :
               /\ book' = b
               /\ workerPc' = "images"
               /\ UNCHANGED <<err, idx, html_parts>>
  /\ UNCHANGED convFrame

\* _report_progress(0.1, "Extracting images..."); images = self._extract_images(book)
ConvertImages ==
  /\ workerPc = "images"
  /\ _report_progress(Lit(10), Msg("Extracting images..."))
  /\ IF ~TkAlive THEN Raise(TclError)
     ELSE \/ \E e \in Errors : Raise(e)
          \/ workerPc' = "chapters" /\ UNCHANGED <<err, book, idx, html_parts>>
  /\ UNCHANGED convFrame

\* Only the ITEM_DOCUMENT items kept.
SpineDocuments(b) == SelectKind(b, Documents)

\* spine_items: the items of book.spine that book.get_item_with_id finds.
SpineItems(b) == SelectKind(b, Kinds \ {"missing"})
\* total_items = len(spine_items)
TotalItems(b) == Len(SpineItems(b))

\* The blocks of html_parts: the title page, and for the k-th item of
\* spine_items a div of class chapter around body.decode_contents() or, with
\* no body found, around the processed markup.
TitlePage == [class |-> "title-page", of |-> 0, content |-> "title"]
Contents(kind) ==
  CASE kind = "document" -> "body contents"
    [] kind = "empty" -> ""
    [] kind = "bodiless" -> "processed markup"
ChapterBlock(k, kind) == [class |-> "chapter", of |-> k, content |-> Contents(kind)]

\* _report_progress(0.2, "Processing chapters..."); the metadata, the title
\* page in html_parts, and spine_items; the chapter loop starts at idx 0.
ConvertChapters ==
  /\ workerPc = "chapters"
  /\ _report_progress(Lit(20), Msg("Processing chapters..."))
  /\ IF ~TkAlive THEN Raise(TclError)
     ELSE /\ html_parts' = <<TitlePage>>
          /\ idx' = 0
          /\ workerPc' = IF TotalItems(book) = 0 THEN "generate" ELSE "chapter"
          /\ UNCHANGED <<err, book>>
  /\ UNCHANGED convFrame

\* The division by the number of items left out: 0.2 + 0.5 * idx.
ChapterProgressUndivided(i, total) == Frac(20 + 50 * i, 100)

\* progress = 0.2 + (0.5 * (idx / max(total_items, 1)))
ChapterProgress(i, total) == Frac(20 * Max(total, 1) + 50 * i, 100 * Max(total, 1))

\* The position after the loop body for idx i.
AfterChapter(i) == IF i + 1 = TotalItems(book) THEN "generate" ELSE "chapter"

\* One iteration of "for idx, item in enumerate(spine_items)": an item that
\* is no ITEM_DOCUMENT is passed over; for a document the progress is
\* reported, its content processed and one chapter block appended.
ConvertChapter ==
  /\ workerPc = "chapter"
  /\ IF SpineItems(book)[idx + 1] \notin Documents
       THEN /\ idx' = idx + 1
            /\ workerPc' = AfterChapter(idx)
            /\ UNCHANGED <<err, book, html_parts, lastCall, afterQueue,
                           queue_items, item_widgets>>
       ELSE /\ _report_progress(ChapterProgress(idx, TotalItems(book)),
                                ChapterMsg(idx + 1, TotalItems(book)))
            /\ IF ~TkAlive THEN Raise(TclError)
               ELSE \/ \E e \in Errors : Raise(e)
                    \/ /\ html_parts' =
                            Append(html_parts, ChapterBlock(idx + 1, SpineItems(book)[idx + 1]))
                       /\ idx' = idx + 1
                       /\ workerPc' = AfterChapter(idx)
                       /\ UNCHANGED <<err, book>>
  /\ UNCHANGED convFrame

\* _report_progress(0.7, "Generating PDF..."); full_html; HTML(...); CSS(...)
ConvertGenerate ==
  /\ workerPc = "generate"
  /\ _report_progress(Lit(70), Msg("Generating PDF..."))
  /\ IF ~TkAlive THEN Raise(TclError)
     ELSE \/ \E e \in Errors : Raise(e)
          \/ workerPc' = "write" /\ UNCHANGED <<err, book, idx, html_parts>>
  /\ UNCHANGED convFrame

\* _report_progress(0.85, "Writing PDF file..."); html_doc.write_pdf(...)
ConvertWrite ==
  /\ workerPc = "write"
  /\ _report_progress(Lit(85), Msg("Writing PDF file..."))
  /\ IF ~TkAlive THEN Raise(TclError)
     ELSE \/ \E e \in Errors : Raise(e)
          \/ workerPc' = "complete" /\ UNCHANGED <<err, book, idx, html_parts>>
  /\ UNCHANGED convFrame

\* convert's locals are gone once it has returned or raised.
ConvertLeft ==
  /\ book' = <<>>
  /\ idx' = 0
  /\ html_parts' = <<>>

\* The fraction of convert's last report on success and in its except clause.
CompleteFraction == Lit(100)
ErrorFraction == Lit(0)

\* _report_progress(1.0, "Complete!"); return True
ConvertComplete ==
  /\ workerPc = "complete"
  /\ _report_progress(CompleteFraction, Msg("Complete!"))
  /\ IF ~TkAlive THEN Raise(TclError)
     ELSE workerPc' = "completed" /\ err' = err /\ ConvertLeft
  /\ UNCHANGED convFrame

\* except Exception as e: _report_progress(0.0, f"Error: {str(e)}"); raise.
\* When the report itself raises, that exception is the one that leaves.
ConvertExcept ==
  /\ workerPc = "except"
  /\ _report_progress(ErrorFraction, ErrorMsg(err))
  /\ err' = IF TkAlive THEN err ELSE TclError
  /\ workerPc' = "failed"
  /\ ConvertLeft
  /\ UNCHANGED convFrame

\* The end of one pass of run's loop: the finally clause, then the loop
\* condition is next.  item is no longer read.
JobLeft(pc) ==
  /\ unfinished' = unfinished - 1
  /\ workerPc' = pc
  /\ item' = None
  /\ err' = ""
  /\ removedBeforeGet' = FALSE

\* A call after convert has returned that leaves the item CONVERTING.
CompleteCallConverting == <<CONVERTING, Lit(100), Msg("Complete!")>>

\* The notification run makes once convert_epub_to_pdf has returned.
CompleteCall == <<COMPLETED, Lit(100), Msg("Complete!")>>

\* self.result_callback(item.id, COMPLETED, 1.0, "Complete!"); an exception of
\* the callback goes to the except clause.
WorkerCompleted ==
  /\ workerPc = "completed"
  /\ _on_conversion_update(item, CompleteCall[1], CompleteCall[2], CompleteCall[3])
  /\ IF TkAlive
       THEN JobLeft("check")
       ELSE /\ workerPc' = "failed"
            /\ err' = TclError
            /\ UNCHANGED <<unfinished, item, removedBeforeGet>>
  /\ UNCHANGED <<task_queue, created, mainPc,
                 running, book, idx, html_parts, applied>>
  /\ UNCHANGED imgVars

\* An except clause that reports a fixed text without str(e).
FailedCallNoText(e) == <<FAILED, Lit(0), Msg("Error")>>

\* An except clause that puts the item back to PENDING.
FailedCallPending(e) == <<PENDING, Lit(0), ErrorMsg(e)>>

\* The notification of run's except clause.
FailedCall(e) == <<FAILED, Lit(0), ErrorMsg(e)>>

\* An except clause that lets the exception leave run.
AfterFailureStops == "dead"

\* Where run goes after its except clause: back to the loop condition, unless
\* the callback called there raised, which ends the thread.
AfterFailure == IF TkAlive THEN "check" ELSE "dead"

\* except Exception as e: self.result_callback(item.id, FAILED, 0.0,
\* f"Error: {str(e)}"); finally: task_done().
WorkerFailed ==
  /\ workerPc = "failed"
  /\ _on_conversion_update(item, FailedCall(err)[1], FailedCall(err)[2], FailedCall(err)[3])
  /\ JobLeft(AfterFailure)
  /\ UNCHANGED <<task_queue, created, mainPc,
                 running, book, idx, html_parts, applied>>
  /\ UNCHANGED imgVars

WorkerEnded == workerPc \in {"exited", "dead", "killed"}

\* After destroy() mainloop returns and the interpreter exits: the worker is
\* a daemon thread and stops wherever it is.
ProcessExit ==
  /\ mainPc = "destroyed"
  /\ ~WorkerEnded
  /\ workerPc' = "killed"
  /\ UNCHANGED <<queue_items, item_widgets, task_queue, unfinished, created, mainPc,
                 afterQueue, running, item, err, book, idx, html_parts,
                 lastCall, applied, removedBeforeGet>>
  /\ UNCHANGED imgVars

(* ------------------------------------------- images and image references *)
\* The names of the image files of a book.
ImageNames ==
  {<<<<"images">>, <<"a", ".png">>>>,
   <<<<"text">>, <<"a", ".png">>>>,
   <<<<"a", ".png">>>>,
   <<<<"images">>, <<"%61", ".png">>>>,
   <<<<"c", ".JPG">>>>,
   <<<<"images">>, <<"b", ".gif">>>>}

\* The contents of the image files of a book.
ImageData ==
  {Source(800, 600, "RGB", TRUE),
   Source(1200, 900, "RGBA", TRUE),
   Source(2400, 1001, "P", TRUE),
   Source(2400, 1001, "LA", TRUE),
   Source(1600, 400, "RGB", FALSE),
   Source(2401, 1, "RGB", TRUE)}

\* The items book.get_items() yields: ITEM_IMAGE items, with contents among
\* data, and a document.
ItemsOf(data) ==
  [type : {"image"}, name : ImageNames, data : data]
  \cup {[type |-> "document", name |-> <<<<"text">>, <<"ch1", ".xhtml">>>>,
         data |-> NoBytes]}

\* The items of one book have names of their own (the paths of its files).
ItemListsOf(items) ==
  {l \in SeqsUpTo(items, MaxItems) :
     \A i, j \in 1..Len(l) : i # j => l[i].name # l[j].name}

\* The books whose image index is built.
ItemLists == ItemListsOf(ItemsOf(ImageData))

\* The books against whose index references are resolved: two contents are
\* enough to tell the images apart.
ReferencedData == {Source(800, 600, "RGB", TRUE), Source(2400, 1001, "P", TRUE)}
ReferencedLists == ItemListsOf(ItemsOf(ReferencedData))

\* The src attributes of img tags and the names of the chapters holding them.
Srcs ==
  {<<>>,
   <<<<"a", ".png">>>>,
   <<<<"%61", ".png">>>>,
   <<<<"images">>, <<"a", ".png">>>>,
   <<<<"images">>, <<"%61", ".png">>>>,
   <<DotDot, <<"images">>, <<"a", ".png">>>>,
   <<DotDot, <<"text">>, <<"%61", ".png">>>>,
   <<<<"x", ".png">>>>}
BasePaths ==
  {<<>>, <<<<"ch1", ".xhtml">>>>, <<<<"text">>, <<"ch1", ".xhtml">>>>}

\* images = self._extract_images(book)
CallExtractImages ==
  /\ imgPc = "extract"
  /\ images' = _extract_images(book_items)
  /\ imgPc' = "process"
  /\ UNCHANGED <<book_items, src, base_path, img_src>>
  /\ UNCHANGED appVars

\* _process_html_content(content, images, base_path) for a chapter with one
\* img tag.
CallProcessHtml ==
  /\ imgPc = "process"
  /\ \E s \in Srcs, b \in BasePaths :
       /\ src' = s
       /\ base_path' = b
       /\ img_src' = ProcessedSrc(s, images, b)
  /\ imgPc' = "done"
  /\ UNCHANGED <<book_items, images>>
  /\ UNCHANGED appVars

(* --------------------------------------------------------- specifications *)
\* The file lists of one _add_files call (askopenfilenames returned files).
PathLists == SeqsUpTo(BOOLEAN, MaxBatch) \ {<<>>}

\* The books of the files queued when several jobs are followed through the
\* queue: a spine with an item that is no document before a chapter.
QueuedBooks == {<<"other", "document">>}

\* The application while its window stays open: no _on_close.
MainOpen(most) ==
  \/ \E paths \in PathLists : _add_files_to_queue(paths, most)
  \/ ClickRemove
  \/ _clear_completed
  \/ _update_item

Main(most) ==
  \/ MainOpen(most)
  \/ OnCloseStop
  \/ OnClosePut
  \/ OnCloseDestroy

Worker(books) ==
  \/ WorkerCheck
  \/ WorkerGet
  \/ WorkerStart
  \/ ConvertOpen(books)
  \/ ConvertImages
  \/ ConvertChapters
  \/ ConvertChapter
  \/ ConvertGenerate
  \/ ConvertWrite
  \/ ConvertComplete
  \/ ConvertExcept
  \/ WorkerCompleted
  \/ WorkerFailed

\* The application as its window drives it, with up to MaxJobs files queued.
Next == Main(MaxJobs) \/ Worker(QueuedBooks) \/ ProcessExit
Spec == Init /\ [][Next]_vars

\* The same with remove(jobId) also called directly.
NextApi == Next \/ RemoveCall
SpecApi == Init /\ [][NextApi]_vars

\* The worker thread keeps being scheduled and the Tk loop keeps running the
\* callbacks queued with after(0).
FairSpec == Spec /\ WF_vars(Worker(QueuedBooks)) /\ WF_vars(_update_item)

NextOpen == MainOpen(MaxJobs) \/ Worker(QueuedBooks)
FairSpecOpen ==
  Init /\ [][NextOpen]_vars /\ WF_vars(Worker(QueuedBooks)) /\ WF_vars(_update_item)

\* One file queued, holding any book with a spine of up to MaxSpine entries.
NextConvert == Main(1) \/ Worker(Books) \/ ProcessExit
SpecConvert == Init /\ [][NextConvert]_vars

\* _extract_images is about to be called on a book with the items of lists.
InitExtract(lists) ==
  /\ AppInit
  /\ book_items \in lists
  /\ images = NoImages
  /\ src = <<>>
  /\ base_path = <<>>
  /\ img_src = Ref(<<>>)
  /\ imgPc = "extract"

\* The image index of any book of up to MaxItems items.
InitImages == InitExtract(ItemLists)
NextImages == CallExtractImages
SpecImages == InitImages /\ [][NextImages]_vars

\* The image index of a book, then one image reference resolved against it.
InitResolve == InitExtract(ReferencedLists)
NextResolve == CallExtractImages \/ CallProcessHtml
SpecResolve == InitResolve /\ [][NextResolve]_vars

(* ---------------------------------------------------------------- claims *)
Terminal == {COMPLETED, FAILED}
Observed == DOMAIN queue_items
StatusOf(id) == queue_items[id].status
\* The job was created and is no longer in the observed set.
Removed(id) == id \in 1..created /\ id \notin Observed

\* C1: in every step, the observed status of a job that stays in the observed
\* set either does not change or goes PENDING -> CONVERTING or CONVERTING ->
\* COMPLETED / FAILED: it never skips CONVERTING, never returns to PENDING and
\* never leaves COMPLETED or FAILED.
C1_StatusOrder ==
  [][\A id \in Observed \cap Observed' :
       \/ StatusOf(id)' = StatusOf(id)
       \/ StatusOf(id) = PENDING /\ StatusOf(id)' = CONVERTING
       \/ StatusOf(id) = CONVERTING /\ StatusOf(id)' \in Terminal]_vars

\* One job was removed, another is observed FAILED and a third state change
\* is still queued for delivery.
C1_Witness ==
  /\ \E id \in Observed : StatusOf(id) = FAILED
  /\ \E id \in 1..created : Removed(id)
  /\ afterQueue # <<>>

\* The ids queued, in queue order, without the stop token.
QueuedJobs == SelectSeq(task_queue, LAMBDA e : e # None)
\* A terminal notification of the job is applied or waits in Tk's queue.
TerminalProduced(id) ==
  \/ id \in Observed /\ StatusOf(id) \in Terminal
  \/ \E i \in 1..Len(afterQueue) : afterQueue[i].id = id /\ afterQueue[i].status \in Terminal

\* C2: jobs are processed one at a time in arrival order (ids are given in
\* arrival order).  The backlog holds the jobs in arrival order.  While the
\* worker holds job B, every job A that arrived before B has left the backlog
\* and, if still observed, its terminal notification has been produced.
\* Among the observed jobs at most one is CONVERTING, and B has left PENDING
\* only if every observed A before it is COMPLETED or FAILED.
C2_OneAtATime ==
  /\ \A i, j \in 1..Len(QueuedJobs) : i < j => QueuedJobs[i] < QueuedJobs[j]
  /\ item # None =>
       /\ \A i \in 1..Len(QueuedJobs) : item < QueuedJobs[i]
       /\ \A a \in 1..(item - 1) : a \in Observed => TerminalProduced(a)
  /\ Cardinality({id \in Observed : StatusOf(id) = CONVERTING}) <= 1
  /\ \A a, b \in Observed :
       (a < b /\ StatusOf(b) # PENDING) => StatusOf(a) \in Terminal

\* The first job is observed COMPLETED, the second CONVERTING at its chapter.
C2_Witness ==
  /\ {1, 2} \subseteq Observed
  /\ StatusOf(1) = COMPLETED
  /\ StatusOf(2) = CONVERTING
  /\ queue_items[2].message.text = "Processing chapter"

\* C3: remove on a job observed CONVERTING has no effect: in every step a job
\* observed CONVERTING stays in the observed set, CONVERTING or on to
\* COMPLETED / FAILED.  With remove(jobId) called directly _remove_item
\* deletes the job whatever its status: only the widget's button holds a
\* click back.
C3_ConvertingNotRemoved ==
  [][\A id \in Observed :
       StatusOf(id) = CONVERTING =>
         id \in Observed' /\ StatusOf(id)' \in {CONVERTING} \cup Terminal]_vars

\* The positions of the worker inside convert_epub_to_pdf.
ConvertPcs == {"open", "images", "chapters", "chapter", "generate", "write",
               "complete", "except"}

\* C4: a job removed while PENDING and before the worker dequeued it is never
\* converted: the worker is never inside the pipeline for such a job.
\* _remove_item leaves the task queue alone, so the worker still gets it.
C4_RemovedNeverConverted ==
  ~(removedBeforeGet /\ workerPc \in ConvertPcs)

\* Shutdown has been requested: the flag is cleared and the token queued.
ShutdownRequested == mainPc \in {"close_put", "destroyed"}

\* C5: once shutdown has been requested the worker dequeues no further job.
\* A worker that passed "while self.running" before stop() still gets the job
\* ahead of the stop token.
C5_NoDequeueAfterShutdown ==
  [][ShutdownRequested => ~(workerPc = "get" /\ workerPc' = "start")]_vars

\* C6: shutdown does not tear the application down before the worker loop
\* has exited.  _on_close calls destroy() without joining the worker.
C6_ShutdownWaitsForWorker ==
  mainPc = "destroyed" => workerPc \in {"exited", "dead"}

\* A step in which convert passes a fraction to the progress callback.
Reports == lastCall' # lastCall /\ workerPc \in ConvertPcs

\* C7: in every run of convert the fractions passed to the progress callback
\* never decrease up to the report of the except clause; the report with
\* which convert returns passes exactly 1.0, and the report with which it
\* raises, from whatever stage, passes 0.0.
C7_ProgressSequence ==
  [][/\ (Reports /\ workerPc \notin {"open", "except"}) =>
          FracLeq(lastCall.progress, lastCall'.progress)
     /\ (workerPc = "complete" /\ workerPc' = "completed") =>
          Reports /\ lastCall'.progress = Lit(100)
     /\ (workerPc = "except" /\ workerPc' = "failed") =>
          Reports /\ lastCall'.progress = Lit(0)]_vars

\* convert has returned after its report of 1.0 on a book of three chapters,
\* while the main thread has just applied the report of the third chapter.
C7_Witness ==
  /\ workerPc = "completed"
  /\ lastCall.progress = Lit(100)
  /\ applied.message.text = "Processing chapter"
  /\ applied.message.n = 3

\* C8: when the pipeline has raised (run is in its except clause), the worker
\* makes one FAILED call for the item, with fraction 0.0 and the message
\* "Error: " followed by the text of the exception, and queues it for the main
\* thread; a FAILED call is made nowhere else; and the call after a FAILED
\* call is for a later item, so it is the last one for its job.
C8_SingleFailed ==
  [][/\ (workerPc = "failed" /\ workerPc' \notin {"failed", "killed"}) =>
          /\ lastCall' # lastCall
          /\ lastCall' = Notification(item, FAILED, Lit(0), ErrorMsg(err), lastCall'.k)
          /\ lastCall'.message.text # ""
          /\ TkAlive => afterQueue' = Append(afterQueue, lastCall')
     /\ (lastCall' # lastCall /\ lastCall'.status = FAILED) => workerPc = "failed"
     /\ (lastCall' # lastCall /\ lastCall.status = FAILED) => lastCall'.id > lastCall.id]_vars

\* The FAILED call was the last one made and applied, and the job shows the
\* error text of the exception convert raised.
C8_Witness ==
  /\ lastCall.status = FAILED
  /\ applied = lastCall
  /\ lastCall.id \in Observed
  /\ queue_items[lastCall.id] =
       [status |-> FAILED, progress |-> Lit(0), message |-> ErrorMsg("bad epub")]

\* A job before b has failed, as the worker's last call or the observed
\* status shows.
FailedEarlier(b) ==
  \E a \in 1..(b - 1) :
    \/ lastCall.id = a /\ lastCall.status = FAILED
    \/ a \in Observed /\ StatusOf(a) = FAILED
\* The worker has made the terminal call for b.
RunToEnd(b) == lastCall.id = b /\ lastCall.status \in Terminal

\* C9: while the window stays open, a job waiting in the backlog after a job
\* before it has failed is still dequeued and run by the worker to its own
\* terminal call (COMPLETED or FAILED).
C9_FailureDoesNotStopWorker ==
  \A b \in Ids : (b \in Range(task_queue) /\ FailedEarlier(b)) ~> RunToEnd(b)

\* The first job is observed FAILED and the second one COMPLETED.
C9_Witness ==
  /\ {1, 2} \subseteq Observed
  /\ StatusOf(1) = FAILED
  /\ StatusOf(2) = COMPLETED

\* y is the call the worker makes right after x: the next call for the same
\* item, or the first call for a later item once x was terminal.
Follows(x, y) ==
  \/ y.id = x.id /\ y.k = x.k + 1
  \/ y.id > x.id /\ y.k = 1 /\ (x = NoCall \/ x.status \in Terminal)
\* The last call applied, then the calls waiting in Tk's queue.
History == <<applied>> \o afterQueue

\* C10: notifications are applied in the order the worker produced them: each
\* call waiting is the one the worker made right after the one before it,
\* the first one waiting right after the last one applied, and (while the
\* application exists) the last one is the worker's latest call, so none is
\* skipped, repeated or overtaken, within a job or across jobs.
C10_AppliedInOrder ==
  /\ \A i \in 1..(Len(History) - 1) : Follows(History[i], History[i + 1])
  /\ TkAlive => History[Len(History)] = lastCall

\* Calls of the first job and of the second one wait while the last call
\* applied belongs to the first job.
C10_Witness ==
  /\ applied.id = 1
  /\ Len(afterQueue) >= 2
  /\ afterQueue[1].id = 1
  /\ afterQueue[Len(afterQueue)].id = 2

\* The main thread has run _update_item for the terminal call of job b, and
\* the job, if still observed, shows COMPLETED or FAILED.
TerminalApplied(b) ==
  /\ applied.id = b
  /\ applied.status \in Terminal
  /\ b \in Observed => StatusOf(b) \in Terminal

\* C11: while the window stays open (no shutdown) and every call of the
\* pipeline returns or raises, every job the worker has dequeued and is about
\* to report CONVERTING for reaches COMPLETED or FAILED: its terminal call is
\* made and applied.  And no step changes an observed status CONVERTING to
\* anything but COMPLETED or FAILED.
C11_ConvertingEnds ==
  /\ \A b \in Ids : (workerPc = "start" /\ item = b) ~> TerminalApplied(b)
  /\ [][\A id \in Observed \cap Observed' :
          StatusOf(id) = CONVERTING => StatusOf(id)' \in {CONVERTING} \cup Terminal]_vars

\* The terminal call of the second job was applied and shows COMPLETED, after
\* the first job was removed.
C11_Witness ==
  /\ applied.id = 2
  /\ applied.status = COMPLETED
  /\ Removed(1)
  /\ 2 \in Observed
  /\ StatusOf(2) = COMPLETED

\* _extract_images has returned its dict.
IndexBuilt == imgPc \in {"process", "done"}
\* The positions of the ITEM_IMAGE items in book.get_items().
ImageItems == {i \in 1..Len(book_items) : book_items[i].type = "image"}

\* C12: once the index is built, for every image resource r the four keys
\* derived from r (name, basename, decoded name, decoded basename) all map
\* to the data URI produced from r, also when several resources share a
\* basename or a decoded form.  _extract_images writes over the keys two
\* resources share, so the earlier one loses them to the later one.
C12_KeysOfOneResourceAgree ==
  IndexBuilt =>
    \A i \in ImageItems : \A k \in Keys(book_items[i].name) :
      k \in DOMAIN images /\ images[k] = DataUri(book_items[i])

\* The item whose data URI the key k holds: the last one stored under k.
EmbeddedFrom(k) ==
  CHOOSE i \in ImageItems :
    /\ k \in Keys(book_items[i].name)
    /\ \A j \in ImageItems : j > i => k \notin Keys(book_items[j].name)
\* The image bytes inside the data URI under k.
Embedded(k) == images[k].data.of
\* The picture e is the picture d, downsized to the width limit when wider:
\* the width is at most 1200, kept when it was at most 1200, else exactly
\* 1200 with the height scaled by 1200 / width and truncated.
Downsized(d, e) ==
  /\ e.width <= 1200
  /\ d.width <= 1200 => e.width = d.width /\ e.height = d.height
  /\ d.width > 1200 =>
       /\ e.width = 1200
       /\ e.height * d.width <= 1200 * d.height
       /\ 1200 * d.height < (e.height + 1) * d.width

EntryCount == Len(SelectKind(book, Kinds \ {"missing"}))
\* convert is in the step at position pc and makes its report there.
ReportsAt(pc) == workerPc = pc /\ lastCall' # lastCall

Processed == imgPc = "done"
\* The candidate keys in the order of the claim: the literal reference, the
\* decoded one, the basename of the literal, the basename of the decoded,
\* then, with a base path, the reference relative to it, raw and decoded.
Candidate(k) ==
  CASE k = 1 -> src
    [] k = 2 -> unquote(src)
    [] k = 3 -> basename(src)
    [] k = 4 -> basename(unquote(src))
    [] k = 5 -> normpath(join(dirname(base_path), src))
    [] k = 6 -> normpath(join(dirname(base_path), unquote(src)))
Candidates == IF base_path = <<>> THEN 1..4 ELSE 1..6
\* Candidate k is the first one whose key is in the index.
FirstPresent(k, keyOf(_)) ==
  /\ keyOf(k) \in DOMAIN images
  /\ \A j \in Candidates : j < k => keyOf(j) \notin DOMAIN images
AsWritten(k) == Candidate(k)
Stripped(k) == lstrip(Candidate(k))

\* C15, as stated: the reference is rewritten to the value of the first
\* candidate that is a key of the index, and left as it is when none is.
\* The code looks each candidate up without its leading "." and "/"
\* characters, so "../images/a.png" finds images/a.png at once.
C15_FirstCandidateWins ==
  Processed =>
    /\ \A k \in Candidates : FirstPresent(k, AsWritten) => img_src = images[AsWritten(k)]
    /\ (\A k \in Candidates : AsWritten(k) \notin DOMAIN images) => img_src = Ref(src)

\* C15, amended: the same with every candidate looked up after
\* lstrip('./'), i.e. without its leading "." and "/" characters.
C15_FirstStrippedCandidateWins ==
  Processed =>
    /\ \A k \in Candidates : FirstPresent(k, Stripped) => img_src = images[Stripped(k)]
    /\ (\A k \in Candidates : Stripped(k) \notin DOMAIN images) => img_src = Ref(src)

\* The reference "../images/a.png" was rewritten to the entry of
\* images/a.png, found by the literal candidate once stripped, while the
\* basename a.png holds the data URI of another image.
C15_Witness ==
  /\ Processed
  /\ src = <<DotDot, <<"images">>, <<"a", ".png">>>>
  /\ FirstPresent(1, Stripped)
  /\ img_src = images[<<<<"images">>, <<"a", ".png">>>>]
  /\ img_src # images[<<<<"a", ".png">>>>]

\* The reference resolved relative to the path of the chapter holding it.
ChapterRelative == normpath(join(dirname(base_path), src))

\* C16: with a base path, when the index holds an entry for the
\* chapter-relative path and a different entry under the bare reference or
\* its basename, the reference is rewritten to the chapter-relative entry.
\* src_variants lists the bare forms first and the loop stops at the first
\* one found, so the bare entry is taken.
C16_ChapterRelativeFirst ==
  (Processed /\ base_path # <<>> /\ src # <<>>) =>
    ((/\ ChapterRelative \in DOMAIN images
      /\ \E bare \in {src, basename(src)} :
           bare \in DOMAIN images /\ images[bare] # images[ChapterRelative])
       => img_src = images[ChapterRelative])

\* The entries of the reading sequence that have an item, in order, and the
\* positions among them of the chapters (the document items).
Entries == SelectKind(book, {"document", "empty", "bodiless", "other"})
ChapterPositions == {p \in 1..Len(Entries) : Entries[p] \in {"document", "empty", "bodiless"}}
\* The j-th smallest element of a set of numbers.
Nth(S, j) == CHOOSE p \in S : Cardinality({q \in S : q < p}) = j - 1
\* The chapter loop of convert is over: html_parts is what full_html joins.
Assembled == workerPc \in {"generate", "write", "complete"}

\* C17: the assembled document is the title block followed by exactly one
\* chapter block per chapter of the reading sequence, in reading order: the
\* j-th block after the title belongs to the j-th chapter; a chapter with an
\* empty body gives an empty block and one with no body a block around its
\* markup, each at its position.
C17_OneBlockPerChapter ==
  Assembled =>
    /\ html_parts[1] = TitlePage
    /\ Len(html_parts) = 1 + Cardinality(ChapterPositions)
    /\ \A j \in 1..Cardinality(ChapterPositions) :
         /\ html_parts[j + 1].class = "chapter"
         /\ html_parts[j + 1].of = Nth(ChapterPositions, j)
         /\ Entries[Nth(ChapterPositions, j)] = "empty" => html_parts[j + 1].content = ""
         /\ Entries[Nth(ChapterPositions, j)] = "document" =>
              html_parts[j + 1].content = "body contents"

\* A book of a chapter with no body, an item that is no document and a
\* chapter with an empty body: the document holds the title and two blocks,
\* the second one empty and at the third position.
C17_Witness ==
  /\ workerPc = "write"
  /\ book = <<"bodiless", "other", "empty">>
  /\ Len(html_parts) = 3
  /\ html_parts[3].of = 3
  /\ html_parts[3].content = ""

\* The worker makes a call in this step.
Calls == lastCall' # lastCall

\* C18: for every job dequeued, the first call the worker makes for it is
\* (CONVERTING, 0.0, "Starting conversion..."); run makes it before it enters
\* the pipeline, so every report of the pipeline for the job comes after it;
\* and when the pipeline has returned, the call made is (COMPLETED, 1.0),
\* queued for the main thread as the last one of the job.
C18_StartFirstCompleteLast ==
  [][/\ (Calls /\ lastCall'.k = 1) =>
          /\ workerPc = "start"
          /\ lastCall' = Notification(item, CONVERTING, Lit(0), Msg("Starting conversion..."), 1)
     /\ (workerPc = "start" /\ workerPc' \in ConvertPcs) =>
          Calls /\ lastCall'.k = 1 /\ lastCall'.id = item
     /\ workerPc' \in ConvertPcs => lastCall'.id = item' /\ lastCall'.k >= 1
     /\ Reports => lastCall'.id = item /\ lastCall'.k >= 2
     /\ (Calls /\ lastCall'.status = COMPLETED) => workerPc = "completed"
     /\ (workerPc = "completed" /\ TkAlive /\ workerPc' # "completed") =>
          /\ lastCall' = Notification(item, COMPLETED, Lit(100), Msg("Complete!"), lastCall.k + 1)
          /\ afterQueue' = Append(afterQueue, lastCall')
          /\ item' = None]_vars

\* The COMPLETED call of the first job was applied at 1.0 and the first call
\* of the second job waits in Tk's queue.
C18_Witness ==
  /\ applied.id = 1
  /\ applied.status = COMPLETED
  /\ applied.progress = Lit(100)
  /\ afterQueue # <<>>
  /\ afterQueue[1] = Notification(2, CONVERTING, Lit(0), Msg("Starting conversion..."), 1)

\* A step of the worker thread: its position, its loop index or its last
\* call changes (the end of the process apart).
WorkerStep == <<workerPc, idx, lastCall>>' # <<workerPc, idx, lastCall>> /\ workerPc' # "killed"

\* C19: no step of the worker thread changes queue_items or item_widgets (a
\* job's status, progress, message; the observed set) or anything else the
\* main thread keeps; every change of them is a step of the main thread in
\* its event loop that applies a notification, adds files or removes items;
\* and the main thread changes nothing the worker keeps but the running
\* flag.  What both threads write is the task queue with its counter, and
\* the notifications travel through Tk's after(0) queue.
C19_WorkerWritesNoJobState ==
  [][/\ WorkerStep =>
          UNCHANGED <<queue_items, item_widgets, created, mainPc, running, applied>>
     /\ (queue_items' # queue_items \/ item_widgets' # item_widgets) =>
          /\ ~WorkerStep
          /\ MainLoop
          /\ \/ applied' # applied /\ afterQueue' = Tail(afterQueue)
             \/ created' > created
             \/ Observed' \subseteq Observed /\ Observed' # Observed
     /\ ~WorkerStep =>
          UNCHANGED <<item, err, book, idx, html_parts, lastCall, removedBeforeGet>>
     /\ (task_queue' # task_queue /\ ~WorkerStep) => Len(task_queue') > Len(task_queue)
     /\ (task_queue' # task_queue /\ WorkerStep) => task_queue' = Tail(task_queue)]_vars

\* The worker's CONVERTING call for the second job waits for the main thread
\* while the job still shows PENDING and the first job shows COMPLETED.
C19_Witness ==
  /\ {1, 2} \subseteq Observed
  /\ StatusOf(1) = COMPLETED
  /\ StatusOf(2) = PENDING
  /\ lastCall.id = 2
  /\ lastCall.status = CONVERTING
  /\ afterQueue # <<>>

\* The main thread runs _update_item for a notification in this step.
Applies == applied' # applied

\* C20: a job removed from the observed set never comes back; a notification
\* for its id applied after the removal changes neither the observed set nor
\* any job's status, progress or message; applying any notification leaves
\* the observed set and every other job as they were; and queue_items and
\* item_widgets always hold the same ids.
C20_RemovedStaysRemoved ==
  /\ [](DOMAIN queue_items = DOMAIN item_widgets)
  /\ [][/\ \A id \in 1..created : id \notin Observed => id \notin Observed'
        /\ (Applies /\ applied'.id \notin Observed) =>
             UNCHANGED <<queue_items, item_widgets>>
        /\ Applies =>
             /\ Observed' = Observed
             /\ \A j \in Observed \ {applied'.id} :
                  queue_items'[j] = queue_items[j] /\ item_widgets'[j] = item_widgets[j]]_vars

\* The worker holds a job that was removed before it was dequeued, and the
\* main thread has applied a report of its conversion while another job is
\* observed.
C20_Witness ==
  /\ removedBeforeGet
  /\ applied.id = item
  /\ applied.message.text = "Processing chapter"
  /\ item \notin Observed
  /\ Observed # {}

====
